---------------------------- MODULE Spec2Model ----------------------------
(***************************************************************************)
(* The content-addressed reference store of redwood (refstore.go): blobs   *)
(* on disk under blobs/<hex sha3>, the sha1<->sha3 index and the           *)
(* "missing-refs" set in badger, the file mutex, and the two listener      *)
(* registries.  Threads call the store's methods; every method is split    *)
(* into the steps at which other threads can interleave.                   *)
(***************************************************************************)
EXTENDS Integers, Sequences, FiniteSets, TLC

(***************************************************************************)
(* Bounds and input sets                                                   *)
(***************************************************************************)
\* StoreObject and MarkRefsAsNeeded calls made in one behaviour, over all threads
MaxOps == 2
\* OnRefsSaved and OnRefsNeeded calls made in one behaviour, over all threads
MaxListeners == 1
\* the same, where callbacks start and return in separate steps
MaxCallbacks == 2
\* NewWorkQueue's size: the capacity of chWork
QueueSize == 1
\* Enqueue calls made in one behaviour, over all threads
MaxEnqueue == 3

Procs == {"t1", "t2"}
NoProc == "none"

\* the byte streams handed to StoreObject: the empty stream and a one-chunk one
Contents == { <<>>, <<104>> }

\* the callbacks handed to OnRefsSaved / OnRefsNeeded
Handlers == {"fn"}

\* callbacks whose body registers "fn": with OnRefsSaved, with OnRefsNeeded
Subscribers == {"onSaved", "onNeeded"}

(***************************************************************************)
(* Digests, hex names, RefIDs                                              *)
(***************************************************************************)
RECURSIVE Absorb(_, _, _)
Absorb(h, m, s) ==
    IF s = <<>> THEN h ELSE Absorb((h * m + Head(s)) % 256, m, Tail(s))

\* sha1.New() ... Sum(nil): a one-byte stand-in, injective on the streams used
SHA1Sum(bytes) == Absorb(218, 31, bytes)

\* sha3.NewLegacyKeccak256() ... Sum(nil): likewise, a different function
Keccak256Sum(bytes) == Absorb(197, 33, bytes)

HexDigits == 0..15

\* types.Hash.Hex(): fixed-width lowercase hex, here two digits
Hex(h) == << h \div 16, h % 16 >>

\* types.HashFromHex(): fails on anything that is not a hex digest of that width
HexOK(s) == Len(s) = 2 /\ \A k \in 1..Len(s) : s[k] \in HexDigits
HashFromHex(s) == s[1] * 16 + s[2]

RefID(alg, hash) == [HashAlg |-> alg, Hash |-> hash]
NoRef == RefID("none", 0)

\* the two RefIDs of a byte stream
SHA1Ref(bytes) == RefID("sha1", SHA1Sum(bytes))
SHA3Ref(bytes) == RefID("sha3", Keccak256Sum(bytes))
RefsOf(bytes) == { SHA1Ref(bytes), SHA3Ref(bytes) }

Refs == UNION { RefsOf(b) : b \in Contents }

\* a RefID whose HashAlg is neither SHA1 nor SHA3
UnknownRef == RefID("md5", SHA1Sum(<<104>>))

\* RefID.MarshalText(): "<alg>:<hex>"
MarshalText(refID) == << refID.HashAlg, Hex(refID.Hash) >>

\* RefID.UnmarshalText()
UnmarshalOK(text) ==
    /\ Len(text) = 2
    /\ text[1] \in {"sha1", "sha3"}
    /\ HexOK(text[2])
UnmarshalText(text) == RefID(text[1], HashFromHex(text[2]))

\* json.Marshal / json.Unmarshal of the map[string]interface{} used as a set
jsonMarshal(keys) == { << k, "null" >> : k \in keys }
jsonUnmarshal(bs) == { kv[1] : kv \in bs }

\* whether json.Unmarshal accepts the bytes: every member is complete
jsonValid(bs) == \A kv \in bs : kv[2] = "null"

\* the arguments of MarkRefsAsNeeded: one sha1 ref, or the two sha3 refs
MarkArgs ==
    { << SHA1Ref(<<104>>) >>,
      << SHA3Ref(<<>>), SHA3Ref(<<104>>) >> }

(***************************************************************************)
(* State                                                                   *)
(***************************************************************************)
VARIABLES
    fileMu,               \* refStore.fileMu: the thread holding it, or NoProc
    blobs,                \* <root>/blobs/: file name -> file content
    tmpFile,              \* per thread: the temp-* file of its StoreObject call
    orphanTemps,          \* temp-* files left under <root> by earlier calls
    sha1Index,            \* metadata: <sha1>:sha3 -> sha3
    sha3Index,            \* metadata: <sha3>:sha1 -> sha1
    missingRefs,          \* metadata: the value under "missing-refs"
    refsSavedListeners,   \* refStore.refsSavedListeners
    refsNeededListeners,  \* refStore.refsNeededListeners
    pc,                   \* per thread: where it is in its call
    op,                   \* per thread: the call it is making or made last
    loc,                  \* per thread: the local variables of that call
    ret,                  \* per thread: what its last call returned
    budget,               \* calls that may still be started
    hist,                 \* history: what has happened so far
    wq                    \* the workQueue: its channels, its worker, its callers

vars == << fileMu, blobs, tmpFile, orphanTemps, sha1Index, sha3Index,
           missingRefs, refsSavedListeners, refsNeededListeners,
           pc, op, loc, ret, budget, hist, wq >>

storeVars == << blobs, tmpFile, orphanTemps, sha1Index, sha3Index, missingRefs >>
listenerVars == << refsSavedListeners, refsNeededListeners >>

\* a function with the empty domain: an empty directory, an empty index
EmptyMap == [ x \in {} |-> 0 ]

\* the value under "missing-refs": absent (badger.ErrKeyNotFound) or JSON bytes
NoMissingRefs == [found |-> FALSE, bs |-> {}]

NoTemp == [exists |-> FALSE, open |-> FALSE, data |-> <<>>]

NoOp == [kind |-> "none", reader |-> <<>>, refID |-> NoRef, refs |-> <<>>,
         fn |-> "none"]
Call(kind, fields) == fields @@ [NoOp EXCEPT !.kind = kind]

NoLoc ==
    [ sha1Hash |-> 0, sha3Hash |-> 0,      \* StoreObject's named results
      i |-> 1, actuallyNeeded |-> <<>>,    \* MarkRefsAsNeeded's loop
      txn |-> "none",                      \* the metadata.Update transaction
      snap |-> NoMissingRefs,              \* what that transaction read
      conflict |-> FALSE,                  \* a later commit wrote what it read
      allNeeded |-> {},                    \* MarkRefsAsNeeded's allNeeded
      wg |-> {},                           \* callbacks started and not returned
      delivered |-> <<>>,                  \* per registered callback: invocations
      regs |-> 0,                          \* callbacks registered when the call began
      twin |-> FALSE,                      \* a StoreObject of the same stream overlapped
      again |-> FALSE,                     \* the stream had been stored when the call began
      running |-> {},                      \* callbacks started and still in their body
      panicked |-> {},                     \* callbacks whose body panicked
      changed |-> FALSE,                   \* the call's transaction changed the missing set
      event |-> "none",                    \* the event the call has dispatched
      called |-> {},                       \* running callbacks whose call into the store is over
      retry |-> FALSE,                     \* an earlier call with this stream failed at its index write
      failed |-> {},                       \* streams whose unmark had failed when the call began
      held |-> {} ]                        \* the refs locally present when the call began

NoRet == [err |-> "none", have |-> FALSE, data |-> <<>>, size |-> 0,
          sha1 |-> 0, sha3 |-> 0, refs |-> <<>>, needed |-> {}, path |-> <<>>]
Returned(fields) == fields @@ [NoRet EXCEPT !.err = "nil"]

NoHist ==
    [ storedOK |-> {},       \* the streams, with the digests returned, of the
                             \* StoreObject calls that returned without error
      published |-> {},      \* streams whose StoreObject returned after its rename
      staleMarks |-> {},     \* refs a Mark transaction added although already stored
      unmarkFailed |-> {},   \* streams whose unmark transaction failed
      marked |-> {} ]        \* refs a Mark call found absent and set out to add

(***************************************************************************)
(* The workQueue                                                           *)
(***************************************************************************)
\* NewWorkQueue(QueueSize, callback): the channels are open and empty and the
\* worker goroutine is at its select.  The fields from enqueued on are history.
NewWorkQueue ==
    [ chWork |-> 0,            \* len(q.chWork)
      closed |-> FALSE,        \* q.chWork has been closed
      chDone |-> FALSE,        \* q.chDone has been closed
      worker |-> "select",     \* where workerLoop is
      stop |-> "idle",         \* where the Stop call is
      enqueued |-> 0,          \* Enqueue calls made
      accepted |-> 0,          \* of them, the ones whose send went through
      dropped |-> 0,           \* of them, the ones that took the default case
      dropFull |-> TRUE,       \* every drop found len(q.chWork) = QueueSize
      invoked |-> 0,           \* callback invocations
      atReturn |-> 0,          \* callback invocations when Stop returned
      panicked |-> FALSE ]     \* a send on, or a close of, the closed q.chWork

Init ==
    /\ fileMu = NoProc
    /\ blobs = EmptyMap
    /\ tmpFile = [p \in Procs |-> NoTemp]
    /\ orphanTemps = 0
    /\ sha1Index = EmptyMap
    /\ sha3Index = EmptyMap
    /\ missingRefs = NoMissingRefs
    /\ refsSavedListeners = <<>>
    /\ refsNeededListeners = <<>>
    /\ pc = [p \in Procs |-> "idle"]
    /\ op = [p \in Procs |-> NoOp]
    /\ loc = [p \in Procs |-> NoLoc]
    /\ ret = [p \in Procs |-> NoRet]
    /\ budget = MaxOps
    /\ wq = NewWorkQueue
    /\ hist = NoHist

(***************************************************************************)
(* Reading the store                                                       *)
(***************************************************************************)
\* a variant that names the blob by the first hex digit only
filepathFirstDigit(sha3Hash) == << sha3Hash \div 16 >>

\* the file name under <root>/blobs/
filepathForSHA3Blob(sha3Hash) == Hex(sha3Hash)

sha3ForSHA1(hash) ==
    IF hash \in DOMAIN sha1Index
    THEN [err |-> "nil", hash |-> sha1Index[hash]]
    ELSE [err |-> "Err404", hash |-> 0]

\* a variant of sha1ForSHA3 that finds no entry
sha1ForSHA3Missing(hash) == [err |-> "Err404", hash |-> 0]

sha1ForSHA3(hash) ==
    IF hash \in DOMAIN sha3Index
    THEN [err |-> "nil", hash |-> sha3Index[hash]]
    ELSE [err |-> "Err404", hash |-> 0]

\* a variant of statOK that finds every file
statAlways(filename) == TRUE

\* os.Stat finds the file
statOK(filename) == filename \in DOMAIN blobs

\* a variant of haveObject that takes any other tag for SHA3
haveObjectAnyTag(refID) ==
    [have |-> statOK(filepathForSHA3Blob(refID.Hash)), err |-> "nil"]

\* the body of HaveObject, under the file mutex
haveObject(refID) ==
    IF refID.HashAlg = "sha1"
    THEN LET found == sha3ForSHA1(refID.Hash) IN
         IF found.err = "Err404"
         THEN [have |-> FALSE, err |-> "nil"]
         ELSE [have |-> statOK(filepathForSHA3Blob(found.hash)), err |-> "nil"]
    ELSE IF refID.HashAlg = "sha3"
    THEN [have |-> statOK(filepathForSHA3Blob(refID.Hash)), err |-> "nil"]
    ELSE [have |-> FALSE, err |-> "unknown hash type"]

\* the stream and size Object hands back: the file as it is when opened
objectBySHA3(sha3Hash) ==
    LET filename == filepathForSHA3Blob(sha3Hash) IN
    IF statOK(filename)
    THEN [err |-> "nil", data |-> blobs[filename], size |-> Len(blobs[filename])]
    ELSE [err |-> "ENOENT", data |-> <<>>, size |-> 0]

objectBySHA1(hash) ==
    LET found == sha3ForSHA1(hash) IN
    IF found.err # "nil"
    THEN [err |-> found.err, data |-> <<>>, size |-> 0]
    ELSE objectBySHA3(found.hash)

\* the body of Object, under the file mutex
object(refID) ==
    IF refID.HashAlg = "sha1" THEN objectBySHA1(refID.Hash)
    ELSE IF refID.HashAlg = "sha3" THEN objectBySHA3(refID.Hash)
    ELSE [err |-> "unknown hash type", data |-> <<>>, size |-> 0]

\* a variant of objectFilepath that looks for the file first
objectFilepathStat(refID) ==
    IF object(refID).err # "nil" THEN [err |-> object(refID).err, path |-> <<>>]
    ELSE [err |-> "nil", path |-> filepathForSHA3Blob(Keccak256Sum(object(refID).data))]

\* the body of ObjectFilepath, under the file mutex: the name, whether or not
\* a file of that name exists
objectFilepath(refID) ==
    IF refID.HashAlg = "sha1"
    THEN LET found == sha3ForSHA1(refID.Hash) IN
         IF found.err # "nil" THEN [err |-> found.err, path |-> <<>>]
         ELSE [err |-> "nil", path |-> filepathForSHA3Blob(found.hash)]
    ELSE IF refID.HashAlg = "sha3"
    THEN [err |-> "nil", path |-> filepathForSHA3Blob(refID.Hash)]
    ELSE [err |-> "unknown hash type", path |-> <<>>]

\* file names compared as filepath.Glob sorts them
RECURSIVE LexLess(_, _)
LexLess(a, b) ==
    IF b = <<>> THEN FALSE
    ELSE IF a = <<>> THEN TRUE
    ELSE IF Head(a) # Head(b) THEN Head(a) < Head(b)
    ELSE LexLess(Tail(a), Tail(b))

FirstName(names) == CHOOSE n \in names : \A m \in names \ {n} : LexLess(n, m)

\* the loop of AllHashes over the matches of blobs/*
RECURSIVE allHashes(_)
allHashes(matches) ==
    IF matches = {} THEN <<>>
    ELSE LET match == FirstName(matches)
             rest == allHashes(matches \ {match})
         IN IF ~HexOK(match) THEN rest
            ELSE LET sha3Hash == HashFromHex(match)
                     found == sha1ForSHA3(sha3Hash)
                 IN IF found.err # "nil"
                    THEN << RefID("sha3", sha3Hash) >> \o rest
                    ELSE << RefID("sha3", sha3Hash), RefID("sha1", found.hash) >>
                         \o rest

\* the map RefsNeeded and the two transactions decode from "missing-refs"
\* the value is there and json.Unmarshal returns an error on it
undecodable(val) == val.found /\ ~jsonValid(val.bs)

decodeMissing(val) ==
    IF val.found /\ jsonValid(val.bs) THEN jsonUnmarshal(val.bs) ELSE {}

\* what RefsNeeded returns: the decodable keys, as RefIDs
refsNeeded(val) ==
    { UnmarshalText(k) : k \in { t \in decodeMissing(val) : UnmarshalOK(t) } }

(***************************************************************************)
(* Calls and locks                                                         *)
(***************************************************************************)
\* a variant that only keeps a thread from locking twice
LockShared(p) == fileMu # p

\* a variant in which the mutex is never waited for
LockNow(p) == TRUE

\* fileMu.Lock() returns
CanLock(p) == fileMu = NoProc

\* the caller has the result; op, loc and ret show the finished call in the one
\* state "done", and the thread is free for its next call.  A temp file the
\* call left under the root stays there, no call's any more.
Finish(p) ==
    /\ pc[p] = "done"
    /\ pc' = [pc EXCEPT ![p] = "idle"]
    /\ op' = [op EXCEPT ![p] = NoOp]
    /\ loc' = [loc EXCEPT ![p] = NoLoc]
    /\ ret' = [ret EXCEPT ![p] = NoRet]
    /\ tmpFile' = [tmpFile EXCEPT ![p] = NoTemp]
    /\ orphanTemps' = orphanTemps + (IF tmpFile[p].exists THEN 1 ELSE 0)
    /\ UNCHANGED << fileMu, blobs, sha1Index, sha3Index, missingRefs,
                    listenerVars, wq, budget, hist >>

\* a listener registry's RWMutex: the dispatches holding its read lock
SavedReaders == { q \in Procs : pc[q] = "so_wait" }
NeededReaders == { q \in Procs : pc[q] = "mk_wait" }

(***************************************************************************)
(* HaveObject, Object, AllHashes, RefsNeeded                               *)
(*                                                                         *)
(* The first three lock fileMu, read the blobs and the index, and unlock;  *)
(* everything they read changes only under fileMu, so each is one step,    *)
(* taken when the mutex is free.  They change nothing and are not counted  *)
(* against the budget.                                                     *)
(***************************************************************************)
Read(p, call, result) ==
    /\ pc[p] = "idle"
    /\ pc' = [pc EXCEPT ![p] = "done"]
    /\ op' = [op EXCEPT ![p] = call]
    /\ ret' = [ret EXCEPT ![p] = result]
    /\ UNCHANGED << fileMu, storeVars, listenerVars, wq, loc, budget, hist >>

HaveObject(p, refID) ==
    /\ CanLock(p)
    /\ LET r == haveObject(refID) IN
       Read(p, Call("HaveObject", [refID |-> refID]),
            IF r.err = "nil" THEN Returned([have |-> r.have])
            ELSE [NoRet EXCEPT !.err = r.err])

Object(p, refID) ==
    /\ CanLock(p)
    /\ LET r == object(refID) IN
       Read(p, Call("Object", [refID |-> refID]),
            IF r.err = "nil" THEN Returned([data |-> r.data, size |-> r.size])
            ELSE [NoRet EXCEPT !.err = r.err])

ObjectFilepath(p, refID) ==
    /\ CanLock(p)
    /\ LET r == objectFilepath(refID) IN
       Read(p, Call("ObjectFilepath", [refID |-> refID]),
            IF r.err = "nil" THEN Returned([path |-> r.path])
            ELSE [NoRet EXCEPT !.err = r.err])

AllHashes(p) ==
    /\ CanLock(p)
    /\ Read(p, Call("AllHashes", << >>), Returned([refs |-> allHashes(DOMAIN blobs)]))

\* one read-only transaction; it takes no lock
RefsNeeded(p) ==
    Read(p, Call("RefsNeeded", << >>),
         IF undecodable(missingRefs) THEN [NoRet EXCEPT !.err = "json"]
         ELSE Returned([needed |-> refsNeeded(missingRefs)]))

(***************************************************************************)
(* OnRefsSaved, OnRefsNeeded                                               *)
(***************************************************************************)
\* registrations made so far, over both registries
Registrations == Len(refsSavedListeners) + Len(refsNeededListeners)

\* Lock, append, Unlock: one step, taken once no dispatch holds the read lock
Register(p, call, max) ==
    /\ pc[p] = "idle"
    /\ Registrations < max
    /\ pc' = [pc EXCEPT ![p] = "done"]
    /\ op' = [op EXCEPT ![p] = call]
    /\ ret' = [ret EXCEPT ![p] = Returned(<< >>)]
    /\ UNCHANGED << fileMu, storeVars, loc, budget, hist, wq >>

OnRefsSaved(p, fn) ==
    /\ SavedReaders = {}
    /\ Register(p, Call("OnRefsSaved", [fn |-> fn]), MaxListeners)
    /\ refsSavedListeners' = Append(refsSavedListeners, fn)
    /\ UNCHANGED refsNeededListeners

\* the same call, counted against MaxCallbacks
OnRefsSavedL(p, fn) ==
    /\ SavedReaders = {}
    /\ Register(p, Call("OnRefsSaved", [fn |-> fn]), MaxCallbacks)
    /\ refsSavedListeners' = Append(refsSavedListeners, fn)
    /\ UNCHANGED refsNeededListeners

OnRefsNeeded(p, fn) ==
    /\ NeededReaders = {}
    /\ Register(p, Call("OnRefsNeeded", [fn |-> fn]), MaxListeners)
    /\ refsNeededListeners' = Append(refsNeededListeners, fn)
    /\ UNCHANGED refsSavedListeners

\* the same call, counted against MaxCallbacks
OnRefsNeededL(p, fn) ==
    /\ NeededReaders = {}
    /\ Register(p, Call("OnRefsNeeded", [fn |-> fn]), MaxCallbacks)
    /\ refsNeededListeners' = Append(refsNeededListeners, fn)
    /\ UNCHANGED refsSavedListeners

(***************************************************************************)
(* The "missing-refs" transactions (metadata.Update)                       *)
(***************************************************************************)
\* txn.Get([]byte("missing-refs")) at the transaction's read timestamp
TxnBegin(l) == [l EXCEPT !.txn = "open", !.snap = missingRefs, !.conflict = FALSE]

\* the transaction's Commit fails with badger.ErrConflict: a transaction that
\* committed after this one began wrote the key this one read
TxnConflict(p) == loc[p].conflict

TxnEnd(l, how) == [l EXCEPT !.txn = how, !.snap = NoMissingRefs, !.conflict = FALSE]

\* a commit that wrote "missing-refs" dooms the transactions open on it
Invalidate(l) == IF l.txn = "open" THEN [l EXCEPT !.conflict = TRUE] ELSE l

Range(seq) == { seq[k] : k \in 1..Len(seq) }

\* a variant that deletes the SHA3 ref only
unmarkSHA3Only(val, refs) ==
    [found |-> TRUE,
     bs |-> jsonMarshal(decodeMissing(val) \
                        { MarshalText(r) : r \in { x \in Range(refs) : x.HashAlg = "sha3" } })]

\* the value unmarkRefsAsNeeded's transaction writes
unmarkRefsAsNeeded(val, refs) ==
    [found |-> TRUE,
     bs |-> jsonMarshal(decodeMissing(val) \ { MarshalText(r) : r \in Range(refs) })]

\* the value MarkRefsAsNeeded's transaction writes
markRefsAsNeeded(val, actuallyNeeded) ==
    [found |-> TRUE,
     bs |-> jsonMarshal(decodeMissing(val) \cup
                        { MarshalText(r) : r \in Range(actuallyNeeded) })]

(***************************************************************************)
(* Listener fan-out                                                        *)
(***************************************************************************)
\* a variant whose loop starts at the second callback
DispatchFromSecond(listeners) == 2..Len(listeners)

\* the goroutines one notification starts: one per registered callback
Dispatch(listeners) == 1..Len(listeners)

\* wg.Add(len(listeners)) and the go statements
Notify(l, listeners) ==
    [l EXCEPT !.wg = Dispatch(listeners),
              !.delivered = [k \in 1..Len(listeners) |-> 0]]

\* a variant whose goroutine calls wg.Done() without running the handler
DeliverNone(l, k) == [l EXCEPT !.wg = l.wg \ {k}]

\* one goroutine: handler(...) runs and returns, then wg.Done()
Deliver(l, k) ==
    [l EXCEPT !.wg = l.wg \ {k}, !.delivered[k] = l.delivered[k] + 1]

\* a variant of wgWait that does not wait
wgWaitSkipped(l) == TRUE

\* wg.Wait(): returns once every goroutine has called wg.Done()
wgWait(l) == l.wg = {}

\* the three moments of one goroutine of a notification, for either event:
\* the go statement has started it and handler(...) is running
CallbackStart(p, k) ==
    /\ pc[p] \in {"so_wait", "mk_wait"}
    /\ k \in loc[p].wg \ loc[p].running
    /\ loc' = [loc EXCEPT ![p].running = @ \cup {k},
                          ![p].delivered[k] = @ + 1]
    /\ UNCHANGED << fileMu, storeVars, listenerVars, wq, pc, op, ret, budget, hist >>

\* handler(...) returns, and the deferred wg.Done() runs
CallbackReturn(p, k) ==
    /\ pc[p] \in {"so_wait", "mk_wait"}
    /\ k \in loc[p].running
    /\ loc' = [loc EXCEPT ![p].running = @ \ {k}, ![p].wg = @ \ {k}]
    /\ UNCHANGED << fileMu, storeVars, listenerVars, wq, pc, op, ret, budget, hist >>

\* a handler that calls back into the store: its s.HaveObject(...) locks
\* fileMu, looks, and unlocks
ReentrantHaveObject(p, k) ==
    /\ pc[p] \in {"so_wait", "mk_wait"}
    /\ k \in loc[p].running \ loc[p].called
    /\ fileMu = NoProc
    /\ loc' = [loc EXCEPT ![p].called = @ \cup {k}]
    /\ UNCHANGED << fileMu, storeVars, listenerVars, wq, pc, op, ret, budget, hist >>

\* that handler returns, and the deferred wg.Done() runs
ReentrantReturn(p, k) ==
    /\ pc[p] \in {"so_wait", "mk_wait"}
    /\ k \in loc[p].called
    /\ loc' = [loc EXCEPT ![p].running = @ \ {k}, ![p].wg = @ \ {k},
                          ![p].called = @ \ {k}]
    /\ UNCHANGED << fileMu, storeVars, listenerVars, wq, pc, op, ret, budget, hist >>

\* the registry a call in its notification reads
Notified(p) ==
    IF op[p].kind = "StoreObject" THEN refsSavedListeners ELSE refsNeededListeners

\* a handler that calls s.OnRefsSaved(fn): Lock on the registry's RWMutex,
\* which waits for every dispatch holding RLock, then append and Unlock
SubscribeSaved(p, k) ==
    /\ pc[p] \in {"so_wait", "mk_wait"}
    /\ k \in loc[p].running \ loc[p].called
    /\ Notified(p)[k] = "onSaved"
    /\ SavedReaders = {}
    /\ refsSavedListeners' = Append(refsSavedListeners, "fn")
    /\ loc' = [loc EXCEPT ![p].called = @ \cup {k}]
    /\ UNCHANGED << fileMu, storeVars, refsNeededListeners, wq, pc, op, ret, budget, hist >>

\* a handler that calls s.OnRefsNeeded(fn)
SubscribeNeeded(p, k) ==
    /\ pc[p] \in {"so_wait", "mk_wait"}
    /\ k \in loc[p].running \ loc[p].called
    /\ Notified(p)[k] = "onNeeded"
    /\ NeededReaders = {}
    /\ refsNeededListeners' = Append(refsNeededListeners, "fn")
    /\ loc' = [loc EXCEPT ![p].called = @ \cup {k}]
    /\ UNCHANGED << fileMu, storeVars, refsSavedListeners, wq, pc, op, ret, budget, hist >>

\* the handler returns, a subscribing one after its registration, and the
\* deferred wg.Done() runs
SubscriberReturn(p, k) ==
    /\ pc[p] \in {"so_wait", "mk_wait"}
    /\ k \in loc[p].running
    /\ Notified(p)[k] \in Subscribers => k \in loc[p].called
    /\ loc' = [loc EXCEPT ![p].running = @ \ {k}, ![p].wg = @ \ {k},
                          ![p].called = @ \ {k}]
    /\ UNCHANGED << fileMu, storeVars, listenerVars, wq, pc, op, ret, budget, hist >>

\* handler(...) panics: the goroutine has no recover, so the Go runtime ends
\* the process, and with it every thread
CallbackPanics(p, k) ==
    /\ pc[p] \in {"so_wait", "mk_wait"}
    /\ k \in loc[p].running
    /\ loc' = [loc EXCEPT ![p].panicked = @ \cup {k}]
    /\ pc' = [q \in Procs |-> "crashed"]
    /\ UNCHANGED << fileMu, storeVars, listenerVars, wq, op, ret, budget, hist >>

(***************************************************************************)
(* StoreObject                                                             *)
(***************************************************************************)
InStoreObject(q) == op[q].kind = "StoreObject" /\ pc[q] \notin {"idle", "done"}

CallStoreObject(p, reader) ==
    /\ pc[p] = "idle"
    /\ budget > 0
    /\ budget' = budget - 1
    /\ pc' = [pc EXCEPT ![p] = "so_lock"]
    /\ op' = [op EXCEPT ![p] = Call("StoreObject", [reader |-> reader])]
    /\ LET same == { q \in Procs \ {p} : InStoreObject(q) /\ op[q].reader = reader }
       IN loc' = [q \in Procs |->
                   IF q = p
                   THEN [NoLoc EXCEPT !.regs = Len(refsSavedListeners),
                                      !.twin = same # {},
                                      !.again = \E s \in hist.storedOK : s.data = reader,
                                      !.retry = /\ reader \in hist.published
                                                /\ \A s \in hist.storedOK : s.data # reader]
                   ELSE IF q \in same THEN [loc[q] EXCEPT !.twin = TRUE]
                   ELSE loc[q]]
    /\ ret' = [ret EXCEPT ![p] = NoRet]
    /\ UNCHANGED << fileMu, storeVars, listenerVars, wq, hist >>

\* s.fileMu.Lock(), s.ensureRootPath(), ioutil.TempFile(s.rootPath, "temp-"):
\* nothing another thread can see happens between the three
StoreObjectTempFile(p) ==
    /\ pc[p] = "so_lock"
    /\ CanLock(p)
    /\ fileMu' = p
    /\ tmpFile' = [tmpFile EXCEPT ![p] = [exists |-> TRUE, open |-> TRUE, data |-> <<>>]]
    /\ pc' = [pc EXCEPT ![p] = "so_copy"]
    /\ UNCHANGED << blobs, orphanTemps, sha1Index, sha3Index, missingRefs,
                    listenerVars, wq, op, loc, ret, budget, hist >>

\* io.Copy has read the whole stream
CopyDone(p) == Len(tmpFile[p].data) = Len(op[p].reader)

\* io.Copy(tmpFile, tee): one more chunk goes to the file and to both hashers
StoreObjectCopy(p) ==
    /\ pc[p] = "so_copy"
    /\ ~CopyDone(p)
    /\ LET chunk == op[p].reader[Len(tmpFile[p].data) + 1] IN
       tmpFile' = [tmpFile EXCEPT ![p].data = Append(@, chunk)]
    /\ UNCHANGED << fileMu, blobs, orphanTemps, sha1Index, sha3Index, missingRefs,
                    listenerVars, wq, pc, op, loc, ret, budget, hist >>

\* a variant that takes the digest before the copy has fed the hasher
sha3SumBeforeCopy(p) == Keccak256Sum(<< >>)

\* sha1Hasher.Sum(nil) and sha3Hasher.Sum(nil): the digests of what was teed
sha1HasherSum(p) == SHA1Sum(tmpFile[p].data)
sha3HasherSum(p) == Keccak256Sum(tmpFile[p].data)

\* the two Sum calls and tmpFile.Close()
StoreObjectClose(p) ==
    /\ pc[p] = "so_copy"
    /\ CopyDone(p)
    /\ loc' = [loc EXCEPT ![p].sha1Hash = sha1HasherSum(p),
                          ![p].sha3Hash = sha3HasherSum(p)]
    /\ tmpFile' = [tmpFile EXCEPT ![p].open = FALSE]
    /\ pc' = [pc EXCEPT ![p] = "so_rename"]
    /\ UNCHANGED << fileMu, blobs, orphanTemps, sha1Index, sha3Index, missingRefs,
                    listenerVars, wq, op, ret, budget, hist >>

\* a variant that copies the file and leaves the temp name behind
renameSourceKept(tmp) == [tmp EXCEPT !.open = FALSE]

\* a variant of os.Rename that leaves the target directory with the one file
renameTargetAlone(dir, filename, data) == (filename :> data)

\* os.Rename: the target name now holds the file, replacing what it held,
\* and the temp name is gone
renameTarget(dir, filename, data) == (filename :> data) @@ dir
renameSource(tmp) == NoTemp

\* os.Rename(tmpFile.Name(), s.filepathForSHA3Blob(sha3Hash))
StoreObjectRename(p) ==
    /\ pc[p] = "so_rename"
    /\ blobs' = renameTarget(blobs, filepathForSHA3Blob(loc[p].sha3Hash), tmpFile[p].data)
    /\ tmpFile' = [tmpFile EXCEPT ![p] = renameSource(@)]
    /\ pc' = [pc EXCEPT ![p] = "so_index"]
    /\ UNCHANGED << fileMu, orphanTemps, sha1Index, sha3Index, missingRefs,
                    listenerVars, wq, op, loc, ret, budget, hist >>

\* a variant that stores the SHA3 digest as its own counterpart
putSHA3IndexSelf(index, sha1Hash, sha3Hash) == (sha3Hash :> sha3Hash) @@ index

\* a variant that leaves out the SHA3 side of the mapping
putSHA3IndexSkipped(index, sha1Hash, sha3Hash) == index

\* a variant that leaves out the SHA1 side of the mapping
putSHA1IndexSkipped(index, sha1Hash, sha3Hash) == index

\* the two txn.Set calls of the mapping transaction
putSHA1Index(index, sha1Hash, sha3Hash) == (sha1Hash :> sha3Hash) @@ index
putSHA3Index(index, sha1Hash, sha3Hash) == (sha3Hash :> sha1Hash) @@ index

\* s.metadata.Update: both directions in one transaction
StoreObjectIndex(p) ==
    /\ pc[p] = "so_index"
    /\ sha1Index' = putSHA1Index(sha1Index, loc[p].sha1Hash, loc[p].sha3Hash)
    /\ sha3Index' = putSHA3Index(sha3Index, loc[p].sha1Hash, loc[p].sha3Hash)
    /\ pc' = [pc EXCEPT ![p] = "so_unmark"]
    /\ UNCHANGED << fileMu, blobs, tmpFile, orphanTemps, missingRefs,
                    listenerVars, wq, op, loc, ret, budget, hist >>

\* the refs StoreObject unmarks
storedRefs(p) == << RefID("sha1", loc[p].sha1Hash), RefID("sha3", loc[p].sha3Hash) >>

\* unmarkRefsAsNeeded: the transaction starts and reads "missing-refs"
UnmarkBegin(p) ==
    /\ pc[p] = "so_unmark"
    /\ loc' = [loc EXCEPT ![p] = TxnBegin(@)]
    /\ pc' = [pc EXCEPT ![p] = "so_commit"]
    /\ UNCHANGED << fileMu, storeVars, listenerVars, wq, op, ret, budget, hist >>

\* unmarkRefsAsNeeded: the transaction commits its write; then
\* notifyRefsSavedListeners: RLock, and one goroutine per callback
UnmarkCommit(p) ==
    /\ pc[p] = "so_commit"
    /\ ~undecodable(loc[p].snap)
    /\ ~TxnConflict(p)
    /\ missingRefs' = unmarkRefsAsNeeded(loc[p].snap, storedRefs(p))
    /\ loc' = [q \in Procs |->
                 IF q = p
                 THEN [Notify(TxnEnd(loc[p], "committed"), refsSavedListeners)
                         EXCEPT !.event = "RefsSaved",
                                !.changed = decodeMissing(loc[p].snap) #
                                            decodeMissing(unmarkRefsAsNeeded(loc[p].snap, storedRefs(p)))]
                 ELSE Invalidate(loc[q])]
    /\ pc' = [pc EXCEPT ![p] = "so_wait"]
    /\ UNCHANGED << fileMu, blobs, tmpFile, orphanTemps, sha1Index, sha3Index,
                    listenerVars, wq, op, ret, budget, hist >>

\* unmarkRefsAsNeeded: the commit fails; the error is logged and dropped, and
\* notifyRefsSavedListeners runs all the same
UnmarkConflict(p) ==
    /\ pc[p] = "so_commit"
    /\ TxnConflict(p)
    /\ loc' = [loc EXCEPT ![p] = [Notify(TxnEnd(@, "failed"), refsSavedListeners)
                                    EXCEPT !.event = "RefsSaved"]]
    /\ hist' = [hist EXCEPT !.unmarkFailed = @ \cup {op[p].reader}]
    /\ pc' = [pc EXCEPT ![p] = "so_wait"]
    /\ UNCHANGED << fileMu, storeVars, listenerVars, wq, op, ret, budget >>

\* unmarkRefsAsNeeded: json.Unmarshal fails inside the transaction, which
\* returns the error without writing; the error is logged, and
\* notifyRefsSavedListeners runs all the same
UnmarkUndecodable(p) ==
    /\ pc[p] = "so_commit"
    /\ undecodable(loc[p].snap)
    /\ loc' = [loc EXCEPT ![p] = [Notify(TxnEnd(@, "failed"), refsSavedListeners)
                                    EXCEPT !.event = "RefsSaved"]]
    /\ hist' = [hist EXCEPT !.unmarkFailed = @ \cup {op[p].reader}]
    /\ pc' = [pc EXCEPT ![p] = "so_wait"]
    /\ UNCHANGED << fileMu, storeVars, listenerVars, wq, op, ret, budget >>

\* one RefsSaved callback runs
RefsSavedCallback(p, k) ==
    /\ pc[p] = "so_wait"
    /\ k \in loc[p].wg
    /\ loc' = [loc EXCEPT ![p] = Deliver(@, k)]
    /\ UNCHANGED << fileMu, storeVars, listenerVars, wq, pc, op, ret, budget, hist >>

\* wg.Wait() returns, RUnlock, return sha1Hash, sha3Hash, nil, fileMu.Unlock()
StoreObjectReturn(p) ==
    /\ pc[p] = "so_wait"
    /\ wgWait(loc[p])
    /\ ret' = [ret EXCEPT ![p] =
                 Returned([sha1 |-> loc[p].sha1Hash, sha3 |-> loc[p].sha3Hash])]
    /\ hist' = [hist EXCEPT
                   !.storedOK = @ \cup { [data |-> op[p].reader,
                                          sha1 |-> loc[p].sha1Hash,
                                          sha3 |-> loc[p].sha3Hash] },
                   !.published = @ \cup {op[p].reader}]
    /\ fileMu' = NoProc
    /\ pc' = [pc EXCEPT ![p] = "done"]
    /\ UNCHANGED << storeVars, listenerVars, wq, op, loc, budget >>

(***************************************************************************)
(* A store opened on the directory an earlier run left                     *)
(***************************************************************************)
\* the digests of the stream <<104>>
StoredSHA1 == SHA1Sum(<<104>>)
StoredSHA3 == Keccak256Sum(<<104>>)

\* what a run leaves in which MarkRefsAsNeeded([sha1 of <<104>>]) found the
\* object absent, StoreObject(<<104>>) then stored it, and the unmark
\* transaction lost against the mark transaction: the blob and both index
\* entries are there, and the missing set still names the object
StaleStore ==
    /\ blobs = renameTarget(EmptyMap, filepathForSHA3Blob(StoredSHA3), <<104>>)
    /\ sha1Index = putSHA1Index(EmptyMap, StoredSHA1, StoredSHA3)
    /\ sha3Index = putSHA3Index(EmptyMap, StoredSHA1, StoredSHA3)
    /\ missingRefs = markRefsAsNeeded(NoMissingRefs, << SHA1Ref(<<104>>) >>)
    /\ hist = [NoHist EXCEPT
                 !.storedOK = { [data |-> <<104>>, sha1 |-> StoredSHA1, sha3 |-> StoredSHA3] },
                 !.published = { <<104>> },
                 !.staleMarks = { SHA1Ref(<<104>>) },
                 !.unmarkFailed = { <<104>> },
                 !.marked = { SHA1Ref(<<104>>) }]

\* an empty store whose "missing-refs" value was cut short on disk
DamagedStore ==
    /\ blobs = EmptyMap
    /\ sha1Index = EmptyMap
    /\ sha3Index = EmptyMap
    /\ missingRefs = [found |-> TRUE, bs |-> { << MarshalText(SHA1Ref(<<104>>)), "nul" >> }]
    /\ hist = NoHist

\* a directory put together outside the store: the blob of <<104>> restored
\* from a backup without its index entries, a file under blobs/ whose name is
\* not a digest, and the index entries of the blob of << >>, whose file is gone
RestoredStore ==
    /\ blobs = renameTarget(renameTarget(EmptyMap, filepathForSHA3Blob(StoredSHA3), <<104>>),
                            <<7>>, << >>)
    /\ sha1Index = putSHA1Index(EmptyMap, SHA1Sum(<< >>), Keccak256Sum(<< >>))
    /\ sha3Index = putSHA3Index(EmptyMap, SHA1Sum(<< >>), Keccak256Sum(<< >>))
    /\ missingRefs = NoMissingRefs
    /\ hist = NoHist

\* NewRefStore and Start on that directory
InitD ==
    /\ RestoredStore
    /\ fileMu = NoProc
    /\ tmpFile = [p \in Procs |-> NoTemp]
    /\ orphanTemps = 0
    /\ refsSavedListeners = <<>>
    /\ refsNeededListeners = <<>>
    /\ pc = [p \in Procs |-> "idle"]
    /\ op = [p \in Procs |-> NoOp]
    /\ loc = [p \in Procs |-> NoLoc]
    /\ ret = [p \in Procs |-> NoRet]
    /\ budget = MaxOps
    /\ wq = NewWorkQueue

\* NewRefStore and Start on such a directory
InitR ==
    /\ StaleStore \/ DamagedStore
    /\ fileMu = NoProc
    /\ tmpFile = [p \in Procs |-> NoTemp]
    /\ orphanTemps = 0
    /\ refsSavedListeners = <<>>
    /\ refsNeededListeners = <<>>
    /\ pc = [p \in Procs |-> "idle"]
    /\ op = [p \in Procs |-> NoOp]
    /\ loc = [p \in Procs |-> NoLoc]
    /\ ret = [p \in Procs |-> NoRet]
    /\ budget = MaxOps
    /\ wq = NewWorkQueue

(***************************************************************************)
(* StoreObject's error returns (I/O and index failures)                    *)
(***************************************************************************)
\* a variant of the error return that hands back no digests
StoreObjectFailsBare(p, sha1Hash, sha3Hash) ==
    /\ ret' = [ret EXCEPT ![p] = [NoRet EXCEPT !.err = "error"]]
    /\ fileMu' = NoProc
    /\ pc' = [pc EXCEPT ![p] = "done"]
    /\ UNCHANGED << listenerVars, wq, op, loc, budget >>

\* return ..., err: the deferred tmpFile.Close() and fileMu.Unlock() run
StoreObjectFails(p, sha1Hash, sha3Hash) ==
    /\ ret' = [ret EXCEPT ![p] =
                 [NoRet EXCEPT !.err = "error", !.sha1 = sha1Hash, !.sha3 = sha3Hash]]
    /\ fileMu' = NoProc
    /\ pc' = [pc EXCEPT ![p] = "done"]
    /\ UNCHANGED << listenerVars, wq, op, loc, budget >>

\* ensureRootPath or ioutil.TempFile fails
TempFileFails(p) ==
    /\ pc[p] = "so_lock"
    /\ CanLock(p)
    /\ StoreObjectFails(p, 0, 0)
    /\ UNCHANGED << storeVars, hist >>

\* io.Copy fails, at any chunk or at the end of the stream
CopyFails(p) ==
    /\ pc[p] = "so_copy"
    /\ StoreObjectFails(p, 0, 0)
    /\ tmpFile' = [tmpFile EXCEPT ![p].open = FALSE]
    /\ UNCHANGED << blobs, orphanTemps, sha1Index, sha3Index, missingRefs, hist >>

\* tmpFile.Close() fails
CloseFails(p) ==
    /\ pc[p] = "so_copy"
    /\ CopyDone(p)
    /\ StoreObjectFails(p, 0, 0)
    /\ tmpFile' = [tmpFile EXCEPT ![p].open = FALSE]
    /\ UNCHANGED << blobs, orphanTemps, sha1Index, sha3Index, missingRefs, hist >>

\* os.Rename fails
RenameFails(p) ==
    /\ pc[p] = "so_rename"
    /\ StoreObjectFails(p, loc[p].sha1Hash, loc[p].sha3Hash)
    /\ UNCHANGED << storeVars, hist >>

\* the mapping transaction fails
IndexFails(p) ==
    /\ pc[p] = "so_index"
    /\ StoreObjectFails(p, loc[p].sha1Hash, loc[p].sha3Hash)
    /\ hist' = [hist EXCEPT !.published = @ \cup {op[p].reader}]
    /\ UNCHANGED storeVars

(***************************************************************************)
(* MarkRefsAsNeeded                                                        *)
(***************************************************************************)
CallMarkRefsAsNeeded(p, refs) ==
    /\ pc[p] = "idle"
    /\ budget > 0
    /\ budget' = budget - 1
    /\ pc' = [pc EXCEPT ![p] = "mk_have"]
    /\ op' = [op EXCEPT ![p] = Call("MarkRefsAsNeeded", [refs |-> refs])]
    /\ loc' = [loc EXCEPT ![p] =
                 [NoLoc EXCEPT !.held = { r \in Range(refs) : haveObject(r).have },
                               !.failed = hist.unmarkFailed]]
    /\ ret' = [ret EXCEPT ![p] = NoRet]
    /\ UNCHANGED << fileMu, storeVars, listenerVars, wq, hist >>

\* a variant that keeps every ref, whatever HaveObject says
keepAlways(actuallyNeeded, refID, r) == Append(actuallyNeeded, refID)

\* a variant that keeps the refs HaveObject reports as present
keepHeld(actuallyNeeded, refID, r) ==
    IF r.err = "nil" /\ r.have THEN Append(actuallyNeeded, refID) ELSE actuallyNeeded

\* the loop body: keep the ref when HaveObject says (false, nil)
keepNeeded(actuallyNeeded, refID, r) ==
    IF r.err = "nil" /\ ~r.have THEN Append(actuallyNeeded, refID) ELSE actuallyNeeded

\* one round of the loop: s.HaveObject(refID) locks fileMu, looks, unlocks
MarkHaveObject(p) ==
    /\ pc[p] = "mk_have"
    /\ CanLock(p)
    /\ LET refID == op[p].refs[loc[p].i] IN
       loc' = [loc EXCEPT
                 ![p].actuallyNeeded = keepNeeded(@, refID, haveObject(refID)),
                 ![p].i = @ + 1]
    /\ pc' = [pc EXCEPT ![p] =
                IF loc[p].i < Len(op[p].refs) THEN "mk_have" ELSE "mk_txn"]
    /\ UNCHANGED << fileMu, storeVars, listenerVars, wq, op, ret, budget, hist >>

\* the transaction starts and reads "missing-refs"
MarkBegin(p) ==
    /\ pc[p] = "mk_txn"
    /\ loc' = [loc EXCEPT ![p] = TxnBegin(@)]
    /\ pc' = [pc EXCEPT ![p] = "mk_commit"]
    /\ UNCHANGED << fileMu, storeVars, listenerVars, wq, op, ret, budget, hist >>

\* the transaction commits its write
MarkCommit(p) ==
    /\ pc[p] = "mk_commit"
    /\ ~undecodable(loc[p].snap)
    /\ ~TxnConflict(p)
    /\ missingRefs' = markRefsAsNeeded(loc[p].snap, loc[p].actuallyNeeded)
    /\ loc' = [q \in Procs |->
                 IF q = p
                 THEN [TxnEnd(loc[p], "committed")
                         EXCEPT !.changed = decodeMissing(loc[p].snap) #
                                            decodeMissing(markRefsAsNeeded(loc[p].snap, loc[p].actuallyNeeded))]
                 ELSE Invalidate(loc[q])]
    /\ hist' = [hist EXCEPT
                   !.staleMarks = @ \cup
                       { r \in Range(loc[p].actuallyNeeded) : haveObject(r).have },
                   !.marked = @ \cup Range(loc[p].actuallyNeeded)]
    /\ pc' = [pc EXCEPT ![p] = "mk_view"]
    /\ UNCHANGED << fileMu, blobs, tmpFile, orphanTemps, sha1Index, sha3Index,
                    listenerVars, wq, op, ret, budget >>

\* the commit fails: "error updating list of needed refs", and on it goes
MarkConflict(p) ==
    /\ pc[p] = "mk_commit"
    /\ TxnConflict(p)
    /\ loc' = [loc EXCEPT ![p] = TxnEnd(@, "failed")]
    /\ hist' = [hist EXCEPT !.marked = @ \cup Range(loc[p].actuallyNeeded)]
    /\ pc' = [pc EXCEPT ![p] = "mk_view"]
    /\ UNCHANGED << fileMu, storeVars, listenerVars, wq, op, ret, budget >>

\* json.Unmarshal fails inside the transaction, which returns the error
\* without writing: "error updating list of needed refs", and on it goes
MarkUndecodable(p) ==
    /\ pc[p] = "mk_commit"
    /\ undecodable(loc[p].snap)
    /\ loc' = [loc EXCEPT ![p] = TxnEnd(@, "failed")]
    /\ hist' = [hist EXCEPT !.marked = @ \cup Range(loc[p].actuallyNeeded)]
    /\ pc' = [pc EXCEPT ![p] = "mk_view"]
    /\ UNCHANGED << fileMu, storeVars, listenerVars, wq, op, ret, budget >>

\* allNeeded, err := s.RefsNeeded() returns an error: "error fetching list of
\* needed refs", and MarkRefsAsNeeded returns without notifying
MarkRefsNeededFails(p) ==
    /\ pc[p] = "mk_view"
    /\ undecodable(missingRefs)
    /\ ret' = [ret EXCEPT ![p] = Returned(<< >>)]
    /\ pc' = [pc EXCEPT ![p] = "done"]
    /\ UNCHANGED << fileMu, storeVars, listenerVars, wq, op, loc, budget, hist >>

\* a variant that hands the listeners the refs this call added
allNeededDelta(val, actuallyNeeded) == Range(actuallyNeeded)

\* allNeeded, err := s.RefsNeeded(): the stored set, read again
allNeededReloaded(val, actuallyNeeded) == refsNeeded(val)

\* allNeeded, err := s.RefsNeeded(), then notifyRefsNeededListeners(allNeeded):
\* RLock, and one goroutine per callback
notifyRefsNeededListeners(p) ==
    /\ pc[p] = "mk_view"
    /\ ~undecodable(missingRefs)
    /\ loc' = [loc EXCEPT ![p] =
                 [Notify([@ EXCEPT !.allNeeded =
                                     allNeededReloaded(missingRefs, loc[p].actuallyNeeded)],
                         refsNeededListeners)
                    EXCEPT !.event = "RefsNeeded"]]
    /\ pc' = [pc EXCEPT ![p] = "mk_wait"]
    /\ UNCHANGED << fileMu, storeVars, listenerVars, wq, op, ret, budget, hist >>

\* one RefsNeeded callback runs
RefsNeededCallback(p, k) ==
    /\ pc[p] = "mk_wait"
    /\ k \in loc[p].wg
    /\ loc' = [loc EXCEPT ![p] = Deliver(@, k)]
    /\ UNCHANGED << fileMu, storeVars, listenerVars, wq, pc, op, ret, budget, hist >>

\* wg.Wait() returns, RUnlock, MarkRefsAsNeeded returns
MarkReturn(p) ==
    /\ pc[p] = "mk_wait"
    /\ wgWait(loc[p])
    /\ ret' = [ret EXCEPT ![p] = Returned(<< >>)]
    /\ pc' = [pc EXCEPT ![p] = "done"]
    /\ UNCHANGED << fileMu, storeVars, listenerVars, wq, op, loc, budget, hist >>

(***************************************************************************)
(* Specification                                                           *)
(***************************************************************************)
\* no thread is at the point of handing its result to its caller
Quiet == \A q \in Procs : pc[q] # "done"

\* a call that has returned hands its result to the caller before anything
\* else is scheduled
Next ==
    \E p \in Procs :
        \/ Finish(p)
        \/ Quiet /\ \E refID \in Refs : HaveObject(p, refID)
        \/ Quiet /\ \E refID \in Refs : Object(p, refID)
        \/ Quiet /\ \E refID \in Refs : ObjectFilepath(p, refID)
        \/ Quiet /\ AllHashes(p)
        \/ Quiet /\ RefsNeeded(p)
        \/ Quiet /\ \E fn \in Handlers : OnRefsSaved(p, fn)
        \/ Quiet /\ \E fn \in Handlers : OnRefsNeeded(p, fn)
        \/ Quiet /\ \E reader \in Contents : CallStoreObject(p, reader)
        \/ Quiet /\ StoreObjectTempFile(p)
        \/ Quiet /\ StoreObjectCopy(p)
        \/ Quiet /\ StoreObjectClose(p)
        \/ Quiet /\ StoreObjectRename(p)
        \/ Quiet /\ StoreObjectIndex(p)
        \/ Quiet /\ UnmarkBegin(p)
        \/ Quiet /\ UnmarkCommit(p)
        \/ Quiet /\ UnmarkConflict(p)
        \/ Quiet /\ \E k \in 1..MaxListeners : RefsSavedCallback(p, k)
        \/ Quiet /\ StoreObjectReturn(p)
        \/ Quiet /\ \E refs \in MarkArgs : CallMarkRefsAsNeeded(p, refs)
        \/ Quiet /\ MarkHaveObject(p)
        \/ Quiet /\ MarkBegin(p)
        \/ Quiet /\ MarkCommit(p)
        \/ Quiet /\ MarkConflict(p)
        \/ Quiet /\ notifyRefsNeededListeners(p)
        \/ Quiet /\ \E k \in 1..MaxListeners : RefsNeededCallback(p, k)
        \/ Quiet /\ MarkReturn(p)

\* the same, with I/O and index failures in StoreObject
NextF ==
    \/ Next
    \/ \E p \in Procs :
        \/ Quiet /\ TempFileFails(p)
        \/ Quiet /\ CopyFails(p)
        \/ Quiet /\ CloseFails(p)
        \/ Quiet /\ RenameFails(p)
        \/ Quiet /\ IndexFails(p)

\* the calls that write, with every callback starting and returning in steps
\* of its own
NextL ==
    \E p \in Procs :
        \/ Finish(p)
        \/ Quiet /\ \E fn \in Handlers : OnRefsSavedL(p, fn)
        \/ Quiet /\ \E fn \in Handlers : OnRefsNeededL(p, fn)
        \/ Quiet /\ \E reader \in Contents : CallStoreObject(p, reader)
        \/ Quiet /\ StoreObjectTempFile(p)
        \/ Quiet /\ StoreObjectCopy(p)
        \/ Quiet /\ StoreObjectClose(p)
        \/ Quiet /\ StoreObjectRename(p)
        \/ Quiet /\ StoreObjectIndex(p)
        \/ Quiet /\ UnmarkBegin(p)
        \/ Quiet /\ UnmarkCommit(p)
        \/ Quiet /\ UnmarkConflict(p)
        \/ Quiet /\ StoreObjectReturn(p)
        \/ Quiet /\ \E refs \in MarkArgs : CallMarkRefsAsNeeded(p, refs)
        \/ Quiet /\ MarkHaveObject(p)
        \/ Quiet /\ MarkBegin(p)
        \/ Quiet /\ MarkCommit(p)
        \/ Quiet /\ MarkConflict(p)
        \/ Quiet /\ notifyRefsNeededListeners(p)
        \/ Quiet /\ MarkReturn(p)
        \/ Quiet /\ \E k \in 1..MaxCallbacks : CallbackStart(p, k)
        \/ Quiet /\ \E k \in 1..MaxCallbacks : CallbackReturn(p, k)

\* the same, with callbacks that panic
NextP ==
    \/ NextL
    \/ \E p \in Procs :
        Quiet /\ \E k \in 1..MaxCallbacks : CallbackPanics(p, k)

\* the same calls on a store whose "missing-refs" value may not decode
NextR ==
    \/ Next
    \/ \E p \in Procs :
        \/ Quiet /\ UnmarkUndecodable(p)
        \/ Quiet /\ MarkUndecodable(p)
        \/ Quiet /\ MarkRefsNeededFails(p)

\* the reads, with any RefID, and StoreObject
NextD ==
    \E p \in Procs :
        \/ Finish(p)
        \/ Quiet /\ \E refID \in Refs \cup {UnknownRef} : HaveObject(p, refID)
        \/ Quiet /\ \E refID \in Refs \cup {UnknownRef} : Object(p, refID)
        \/ Quiet /\ \E refID \in Refs \cup {UnknownRef} : ObjectFilepath(p, refID)
        \/ Quiet /\ AllHashes(p)
        \/ Quiet /\ \E reader \in Contents : CallStoreObject(p, reader)
        \/ Quiet /\ StoreObjectTempFile(p)
        \/ Quiet /\ StoreObjectCopy(p)
        \/ Quiet /\ StoreObjectClose(p)
        \/ Quiet /\ StoreObjectRename(p)
        \/ Quiet /\ StoreObjectIndex(p)
        \/ Quiet /\ UnmarkBegin(p)
        \/ Quiet /\ UnmarkCommit(p)
        \/ Quiet /\ StoreObjectReturn(p)

\* the calls that write, with callbacks that call HaveObject
NextE ==
    \E p \in Procs :
        \/ Finish(p)
        \/ Quiet /\ \E fn \in Handlers : OnRefsSavedL(p, fn)
        \/ Quiet /\ \E fn \in Handlers : OnRefsNeededL(p, fn)
        \/ Quiet /\ \E reader \in Contents : CallStoreObject(p, reader)
        \/ Quiet /\ StoreObjectTempFile(p)
        \/ Quiet /\ StoreObjectCopy(p)
        \/ Quiet /\ StoreObjectClose(p)
        \/ Quiet /\ StoreObjectRename(p)
        \/ Quiet /\ StoreObjectIndex(p)
        \/ Quiet /\ UnmarkBegin(p)
        \/ Quiet /\ UnmarkCommit(p)
        \/ Quiet /\ UnmarkConflict(p)
        \/ Quiet /\ StoreObjectReturn(p)
        \/ Quiet /\ \E refs \in MarkArgs : CallMarkRefsAsNeeded(p, refs)
        \/ Quiet /\ MarkHaveObject(p)
        \/ Quiet /\ MarkBegin(p)
        \/ Quiet /\ MarkCommit(p)
        \/ Quiet /\ MarkConflict(p)
        \/ Quiet /\ notifyRefsNeededListeners(p)
        \/ Quiet /\ MarkReturn(p)
        \/ Quiet /\ \E k \in 1..MaxCallbacks : CallbackStart(p, k)
        \/ Quiet /\ \E k \in 1..MaxCallbacks : ReentrantHaveObject(p, k)
        \/ Quiet /\ \E k \in 1..MaxCallbacks : ReentrantReturn(p, k)

Spec == Init /\ [][Next]_vars

\* the calls that write, with callbacks that register callbacks
NextG ==
    \E p \in Procs :
        \/ Finish(p)
        \/ Quiet /\ \E fn \in Subscribers : OnRefsSavedL(p, fn)
        \/ Quiet /\ \E fn \in Subscribers : OnRefsNeededL(p, fn)
        \/ Quiet /\ \E reader \in Contents : CallStoreObject(p, reader)
        \/ Quiet /\ StoreObjectTempFile(p)
        \/ Quiet /\ StoreObjectCopy(p)
        \/ Quiet /\ StoreObjectClose(p)
        \/ Quiet /\ StoreObjectRename(p)
        \/ Quiet /\ StoreObjectIndex(p)
        \/ Quiet /\ UnmarkBegin(p)
        \/ Quiet /\ UnmarkCommit(p)
        \/ Quiet /\ UnmarkConflict(p)
        \/ Quiet /\ StoreObjectReturn(p)
        \/ Quiet /\ \E refs \in MarkArgs : CallMarkRefsAsNeeded(p, refs)
        \/ Quiet /\ MarkHaveObject(p)
        \/ Quiet /\ MarkBegin(p)
        \/ Quiet /\ MarkCommit(p)
        \/ Quiet /\ MarkConflict(p)
        \/ Quiet /\ notifyRefsNeededListeners(p)
        \/ Quiet /\ MarkReturn(p)
        \/ Quiet /\ \E k \in DOMAIN loc[p].delivered : CallbackStart(p, k)
        \/ Quiet /\ \E k \in DOMAIN loc[p].delivered : SubscribeSaved(p, k)
        \/ Quiet /\ \E k \in DOMAIN loc[p].delivered : SubscribeNeeded(p, k)
        \/ Quiet /\ \E k \in DOMAIN loc[p].delivered : SubscriberReturn(p, k)

SpecG == Init /\ [][NextG]_vars /\ WF_vars(NextG)

\* every goroutine that can take a step gets to take one
SpecE == Init /\ [][NextE]_vars /\ WF_vars(NextE)

SpecD == InitD /\ [][NextD]_vars

SpecR == InitR /\ [][NextR]_vars

SpecL == Init /\ [][NextL]_vars

SpecP == Init /\ [][NextP]_vars

(***************************************************************************)
(* The workQueue: Enqueue, Stop and the worker goroutine                   *)
(***************************************************************************)
\* a variant whose send case is taken whatever the buffer holds
selectSendAlways(len, size) == TRUE

\* Enqueue's select: the send case can proceed when the buffer has room,
\* otherwise the default case is taken
selectSend(len, size) == len < size

\* a variant whose deferred function calls the callback whatever is buffered
deferredCallsAlways(len) == TRUE

\* workerLoop's deferred function calls the callback when something is buffered
deferredCalls(len) == len > 0

\* a step of the queue leaves the store alone
QueueStep(new) ==
    /\ wq' = new
    /\ UNCHANGED << fileMu, storeVars, listenerVars, pc, op, loc, ret, budget, hist >>

\* Enqueue, the send case: the request is buffered
EnqueueSend ==
    /\ ~wq.panicked
    /\ wq.enqueued < MaxEnqueue
    /\ ~wq.closed
    /\ selectSend(wq.chWork, QueueSize)
    /\ QueueStep([wq EXCEPT !.chWork = @ + 1, !.enqueued = @ + 1, !.accepted = @ + 1])

\* Enqueue, the default case: the request is dropped and Enqueue returns
EnqueueDrop ==
    /\ ~wq.panicked
    /\ wq.enqueued < MaxEnqueue
    /\ ~wq.closed
    /\ ~selectSend(wq.chWork, QueueSize)
    /\ QueueStep([wq EXCEPT !.enqueued = @ + 1, !.dropped = @ + 1,
                            !.dropFull = @ /\ wq.chWork = QueueSize])

\* Enqueue after Stop has closed chWork: the send panics
EnqueuePanics ==
    /\ ~wq.panicked
    /\ wq.enqueued < MaxEnqueue
    /\ wq.closed
    /\ QueueStep([wq EXCEPT !.enqueued = @ + 1, !.panicked = TRUE])

\* workerLoop receives a buffered request, also from the closed chWork.  The
\* chStop case is never ready: nothing sends on chStop or closes it.
WorkerReceive ==
    /\ ~wq.panicked
    /\ wq.worker = "select"
    /\ wq.chWork > 0
    /\ QueueStep([wq EXCEPT !.chWork = @ - 1, !.worker = "callback"])

\* q.callback() runs and returns
WorkerCallback ==
    /\ ~wq.panicked
    /\ wq.worker = "callback"
    /\ QueueStep([wq EXCEPT !.invoked = @ + 1, !.worker = "select"])

\* workerLoop receives from the closed and drained chWork: open is false
WorkerClosed ==
    /\ ~wq.panicked
    /\ wq.worker = "select"
    /\ wq.chWork = 0
    /\ wq.closed
    /\ QueueStep([wq EXCEPT !.worker = "deferred"])

\* workerLoop's deferred function, and the goroutine ends
WorkerDeferred ==
    /\ ~wq.panicked
    /\ wq.worker = "deferred"
    /\ QueueStep([wq EXCEPT !.invoked = IF deferredCalls(wq.chWork) THEN @ + 1 ELSE @,
                            !.chDone = TRUE,
                            !.worker = "exited"])

\* Stop: close(q.chWork)
StopClose ==
    /\ ~wq.panicked
    /\ wq.stop = "idle"
    /\ ~wq.closed
    /\ QueueStep([wq EXCEPT !.closed = TRUE, !.stop = "wait"])

\* Stop: <-q.chDone
StopReturn ==
    /\ ~wq.panicked
    /\ wq.stop = "wait"
    /\ wq.chDone
    /\ QueueStep([wq EXCEPT !.stop = "returned", !.atReturn = wq.invoked])

\* a second Stop: close of the closed chWork panics
StopPanics ==
    /\ ~wq.panicked
    /\ wq.stop # "idle"
    /\ wq.closed
    /\ QueueStep([wq EXCEPT !.panicked = TRUE])

NextW ==
    \/ EnqueueSend
    \/ EnqueueDrop
    \/ EnqueuePanics
    \/ WorkerReceive
    \/ WorkerCallback
    \/ WorkerClosed
    \/ WorkerDeferred
    \/ StopClose
    \/ StopReturn
    \/ StopPanics

SpecW == Init /\ [][NextW]_vars

SpecF == Init /\ [][NextF]_vars

(***************************************************************************)
(* Properties                                                              *)
(***************************************************************************)
Finished(p, kind) == pc[p] = "done" /\ op[p].kind = kind

\* C1: an Object({SHA3,X}) call that overlaps StoreObject calls either fails
\* with not-found or returns a stream whose Keccak-256 digest is X and whose
\* reported size is the full length of that stream; no file under blobs/ holds
\* anything but the complete content its name is the digest of.
C1_AtomicPublication ==
    /\ \A p \in Procs :
          Finished(p, "Object") /\ op[p].refID.HashAlg = "sha3" =>
              \/ ret[p].err = "ENOENT"
              \/ /\ ret[p].err = "nil"
                 /\ Keccak256Sum(ret[p].data) = op[p].refID.Hash
                 /\ ret[p].data \in Contents
                 /\ ret[p].size = Len(ret[p].data)
    /\ \A filename \in DOMAIN blobs :
          /\ blobs[filename] \in Contents
          /\ filename = Hex(Keccak256Sum(blobs[filename]))

\* Object({SHA3,X}) returns the whole of B while another thread is inside a
\* StoreObject(B) call
C1_Witness ==
    \E p, q \in Procs :
        /\ p # q
        /\ Finished(p, "Object")
        /\ op[p].refID = SHA3Ref(<<104>>)
        /\ ret[p].err = "nil"
        /\ ret[p].data = <<104>>
        /\ ret[p].size = 1
        /\ pc[q] = "so_lock"
        /\ op[q].reader = <<104>>

\* C2: once StoreObject(B) has returned (h1, h3) without error, Object({SHA3,h3})
\* and Object({SHA1,h1}) both succeed with a stream equal to B and a size equal
\* to the length of B.
C2_RoundTrip ==
    \A p \in Procs : \A s \in hist.storedOK :
        /\ Finished(p, "Object")
        /\ op[p].refID \in { RefID("sha3", s.sha3), RefID("sha1", s.sha1) }
        => /\ ret[p].err = "nil"
           /\ ret[p].data = s.data
           /\ ret[p].size = Len(s.data)

\* both objects are stored and the one-byte stream comes back by its SHA1 digest
C2_Witness ==
    \E p \in Procs : \E s \in hist.storedOK :
        /\ Cardinality(hist.storedOK) = 2
        /\ s.data = <<104>>
        /\ Finished(p, "Object")
        /\ op[p].refID = RefID("sha1", s.sha1)
        /\ ret[p].data = <<104>>
        /\ ret[p].size = 1

\* C3 as stated: after StoreObject has returned (h1, h3) without error, no later
\* RefsNeeded() result contains {SHA1,h1} or {SHA3,h3}, in every interleaving,
\* concurrent MarkRefsAsNeeded calls included.
C3_NeverNeededAgain ==
    \A p \in Procs : \A s \in hist.storedOK :
        Finished(p, "RefsNeeded") =>
            /\ RefID("sha1", s.sha1) \notin ret[p].needed
            /\ RefID("sha3", s.sha3) \notin ret[p].needed

\* C3, amended: after StoreObject has returned (h1, h3) without error, a later
\* RefsNeeded() result contains {SHA1,h1} or {SHA3,h3} only if a concurrent
\* MarkRefsAsNeeded call that had found the ref absent committed it after the
\* object was stored, or if the unmark transaction of a StoreObject of that
\* content failed to commit.
C3_NeededOnlyByRace ==
    \A p \in Procs : \A s \in hist.storedOK :
        Finished(p, "RefsNeeded") =>
            \A r \in { RefID("sha1", s.sha1), RefID("sha3", s.sha3) } :
                r \in ret[p].needed =>
                    \/ r \in hist.staleMarks
                    \/ s.data \in hist.unmarkFailed

\* both SHA3 refs were marked, one object was then stored, and RefsNeeded
\* returns the other ref alone
C3_Witness ==
    \E p \in Procs : \E s \in hist.storedOK :
        /\ s.data = <<104>>
        /\ hist.storedOK = {s}
        /\ Finished(p, "RefsNeeded")
        /\ ret[p].needed = { SHA3Ref(<< >>) }
        /\ hist.staleMarks = {}

\* C4 as stated: once MarkRefsAsNeeded(refs) has returned, RefsNeeded() by the
\* same caller contains every R of refs that is not locally present.
C4_ReadAfterWrite ==
    \A p \in Procs :
        Finished(p, "MarkRefsAsNeeded") =>
            \A r \in Range(op[p].refs) :
                ~haveObject(r).have => r \in refsNeeded(missingRefs)

\* C5: a MarkRefsAsNeeded call all of whose refs were locally present when it
\* began writes back the missing set it read: no step of the call changes the
\* set.
C5_MarkPresentRefs ==
    [][ \A p \in Procs :
          /\ op[p].kind = "MarkRefsAsNeeded"
          /\ pc'[p] # pc[p]
          /\ loc[p].held = Range(op[p].refs)
          => decodeMissing(missingRefs') = decodeMissing(missingRefs) ]_vars

\* such a call has committed its transaction and returned
C5_Witness ==
    \E p \in Procs :
        /\ Finished(p, "MarkRefsAsNeeded")
        /\ op[p].refs = << SHA1Ref(<<104>>) >>
        /\ loc[p].held = Range(op[p].refs)
        /\ loc[p].txn = "committed"
        /\ missingRefs.found

Invoked(p) == { k \in DOMAIN loc[p].delivered : loc[p].delivered[k] > 0 }

\* C6: when a StoreObject call returns without error, every RefsSaved listener
\* registered before the call began has been invoked exactly once for it; when
\* it returns an error, no listener has been invoked for it.
C6_SavedExactlyOnce ==
    \A p \in Procs :
        Finished(p, "StoreObject") =>
            IF ret[p].err = "nil"
            THEN /\ loc[p].regs <= Len(loc[p].delivered)
                 /\ \A k \in 1..loc[p].regs : loc[p].delivered[k] = 1
            ELSE Invoked(p) = {}

\* a successful StoreObject that began with a listener registered
C6_Witness ==
    \E p \in Procs :
        /\ Finished(p, "StoreObject")
        /\ ret[p].err = "nil"
        /\ loc[p].regs = 1
        /\ loc[p].delivered[1] = 1

Occurrences(seq, x) == Cardinality({ k \in 1..Len(seq) : seq[k] = x })

\* C7: a StoreObject of a stream that had already been stored returns the
\* digests the earlier call returned; none of its steps changes the blob files
\* or the two index maps; when it returns, HaveObject is true for both refs
\* and AllHashes lists each of the two refs exactly once.
C7_Idempotent ==
    [][ \A p \in Procs :
          /\ op[p].kind = "StoreObject"
          /\ loc[p].again
          /\ pc'[p] # pc[p]
          => /\ blobs' = blobs
             /\ sha1Index' = sha1Index
             /\ sha3Index' = sha3Index
             /\ pc'[p] = "done" =>
                  /\ ret'[p].err = "nil"
                  /\ \A s \in hist.storedOK :
                        s.data = op[p].reader =>
                            s.sha1 = ret'[p].sha1 /\ s.sha3 = ret'[p].sha3
                  /\ \A r \in RefsOf(op[p].reader) :
                        /\ haveObject(r)'.have
                        /\ Occurrences(allHashes(DOMAIN blobs)', r) = 1 ]_vars

\* the second StoreObject of the one-byte stream has returned
C7_Witness ==
    \E p \in Procs :
        /\ Finished(p, "StoreObject")
        /\ op[p].reader = <<104>>
        /\ loc[p].again
        /\ ret[p].err = "nil"

\* the StoreObject calls of the stream of p's call that are still running
Twins(p) == { q \in Procs \ {p} : InStoreObject(q) /\ op[q].reader = op[p].reader }

\* C8: a StoreObject call that overlapped another one of the same content
\* returns without error and with the digests the other one returned; exactly
\* one file under blobs/ holds that content; once both have returned, neither
\* has left a temporary file.
C8_ConcurrentSameContent ==
    \A p \in Procs :
        Finished(p, "StoreObject") /\ loc[p].twin =>
            /\ ret[p].err = "nil"
            /\ \A s \in hist.storedOK :
                  s.data = op[p].reader => s.sha1 = ret[p].sha1 /\ s.sha3 = ret[p].sha3
            /\ Cardinality({ f \in DOMAIN blobs : blobs[f] = op[p].reader }) = 1
            /\ Twins(p) = {} =>
                  /\ \A q \in Procs : ~tmpFile[q].exists
                  /\ orphanTemps = 0

\* the later of two overlapping StoreObject calls of one stream has returned
C8_Witness ==
    \E p \in Procs :
        /\ Finished(p, "StoreObject")
        /\ loc[p].twin
        /\ Twins(p) = {}
        /\ budget = 0
        /\ Cardinality(hist.storedOK) = 1
        /\ DOMAIN blobs = { Hex(ret[p].sha3) }

\* C9: when HaveObject(X) returns true or Object(X) returns a stream, a
\* StoreObject call of the content X names has already returned, and with
\* that released the file mutex.
C9_StoreHappensBefore ==
    \A p \in Procs :
        /\ Finished(p, "HaveObject") /\ ret[p].err = "nil" /\ ret[p].have
            => \E B \in hist.published : op[p].refID \in RefsOf(B)
        /\ Finished(p, "Object") /\ ret[p].err = "nil"
            => \E B \in hist.published :
                  op[p].refID \in RefsOf(B) /\ ret[p].data = B

\* HaveObject answers true while another StoreObject is waiting for the mutex
C9_Witness ==
    \E p, q \in Procs :
        /\ Finished(p, "HaveObject")
        /\ ret[p].have
        /\ op[p].refID = SHA1Ref(<<104>>)
        /\ pc[q] = "so_lock"

\* C10 as stated: a RefsSaved listener is invoked only after the blob file and
\* both index entries of the stored object are in place, and a RefsNeeded
\* listener is invoked by MarkRefsAsNeeded only after its missing-set
\* transaction has committed.
C10_NotifyAfterDurable ==
    \A p \in Procs :
        Invoked(p) # {} =>
            /\ op[p].kind = "StoreObject" =>
                  LET filename == filepathForSHA3Blob(loc[p].sha3Hash) IN
                  /\ statOK(filename)
                  /\ blobs[filename] = op[p].reader
                  /\ sha3ForSHA1(loc[p].sha1Hash) = [err |-> "nil", hash |-> loc[p].sha3Hash]
                  /\ sha1ForSHA3(loc[p].sha3Hash) = [err |-> "nil", hash |-> loc[p].sha1Hash]
            /\ op[p].kind = "MarkRefsAsNeeded" => loc[p].txn = "committed"

\* the threads inside the body of StoreObject: past fileMu.Lock(), before the
\* deferred fileMu.Unlock()
InBody == { q \in Procs :
              pc[q] \in {"so_copy", "so_rename", "so_index", "so_unmark",
                         "so_commit", "so_wait"} }

FileReads == {"HaveObject", "Object", "ObjectFilepath", "AllHashes"}

\* C11: at most one thread is inside the body of StoreObject, and it is the
\* holder of the file mutex; a HaveObject, Object, ObjectFilepath or AllHashes
\* call never runs its body while a thread is inside StoreObject.
C11_MutualExclusion ==
    /\ Cardinality(InBody) <= 1
    /\ \A q \in Procs : q \in InBody <=> fileMu = q
    /\ \A p \in Procs :
          pc[p] = "done" /\ op[p].kind \in FileReads => InBody = {}

\* one thread has renamed its blob and not yet written the index, and the
\* other waits for the mutex
C11_Witness ==
    \E p, q \in Procs :
        /\ pc[q] = "so_index"
        /\ fileMu = q
        /\ pc[p] = "so_lock"

\* C12 as stated: when a StoreObject call returns an error, no temp file it
\* created remains under the root, and the blob files and index entries of
\* the calls that had succeeded are as they were.
C12_NoTempAfterError ==
    \A p \in Procs :
        Finished(p, "StoreObject") /\ ret[p].err # "nil" =>
            /\ ~tmpFile[p].exists
            /\ \A s \in hist.storedOK :
                  /\ statOK(filepathForSHA3Blob(s.sha3))
                  /\ blobs[filepathForSHA3Blob(s.sha3)] = s.data
                  /\ sha3ForSHA1(s.sha1) = [err |-> "nil", hash |-> s.sha3]
                  /\ sha1ForSHA3(s.sha3) = [err |-> "nil", hash |-> s.sha1]

\* C13: a callback that panics does not stop the emitting call: the call is
\* still waiting for the other callbacks or has returned to its caller.
C13_ListenerIsolation ==
    \A p \in Procs :
        loc[p].panicked # {} => pc[p] \in {"so_wait", "mk_wait", "done", "idle"}

\* C14: during a notification every callback registered at dispatch has been
\* started at most once, those started and not yet returned are exactly the
\* running ones, and the notifying call returns only when every one of them
\* has been started exactly once and has returned.
C14_Barrier ==
    \A p \in Procs :
        /\ pc[p] \in {"so_wait", "mk_wait"} =>
               /\ DOMAIN loc[p].delivered = 1..Len(Notified(p))
               /\ loc[p].running \subseteq loc[p].wg
               /\ \A k \in DOMAIN loc[p].delivered :
                      loc[p].delivered[k] = IF k \in loc[p].wg \ loc[p].running THEN 0 ELSE 1
        /\ \/ Finished(p, "StoreObject") /\ ret[p].err = "nil"
           \/ Finished(p, "MarkRefsAsNeeded")
           => /\ DOMAIN loc[p].delivered = 1..Len(Notified(p))
              /\ \A k \in DOMAIN loc[p].delivered : loc[p].delivered[k] = 1
              /\ loc[p].wg = {}
              /\ loc[p].running = {}

\* two callbacks of one notification are in their bodies at the same time
C14_Witness ==
    \E p \in Procs : pc[p] = "so_wait" /\ loc[p].running = {1, 2}

\* C15: once every call has returned, the missing set contains every ref that
\* some MarkRefsAsNeeded call found absent and set out to add and that has not
\* been stored.
C15_NoLostUpdate ==
    (\A q \in Procs : pc[q] = "idle") =>
        \A r \in hist.marked :
            ~haveObject(r).have => r \in refsNeeded(missingRefs)

\* C16: when the unmark step of a StoreObject call had failed before a
\* MarkRefsAsNeeded call began, then at the return of that MarkRefsAsNeeded
\* call the missing set names no ref that HaveObject reports as present.
C16_Reconciled ==
    \A p \in Procs :
        Finished(p, "MarkRefsAsNeeded") /\ loc[p].failed # {} =>
            \A r \in refsNeeded(missingRefs) : ~haveObject(r).have

\* C19: RefsNeeded on a "missing-refs" value that does not decode returns the
\* empty list and no error.
C19_UndecodableIsEmpty ==
    \A p \in Procs :
        Finished(p, "RefsNeeded") /\ undecodable(missingRefs) =>
            ret[p].err = "nil" /\ ret[p].needed = {}

\* C17 as stated: a ref that a step adds to the missing set is not locally
\* present at the moment of that step, the commit of the transaction.
C17_AbsentAtCommit ==
    [][\A r \in refsNeeded(missingRefs') \ refsNeeded(missingRefs) :
           ~haveObject(r).have']_vars

\* C17, amended: a ref that a step adds to the missing set is added by the
\* commit of a MarkRefsAsNeeded call that found it absent in its HaveObject
\* loop: the ref was not locally present when that call began. It may be
\* present at the commit, when a StoreObject call stored it in between.
C17_AbsentWhenChecked ==
    [][\A r \in refsNeeded(missingRefs') \ refsNeeded(missingRefs) :
           \E p \in Procs :
               /\ pc[p] = "mk_commit" /\ pc'[p] = "mk_view"
               /\ r \in Range(loc[p].actuallyNeeded)
               /\ r \notin loc[p].held]_vars

\* a MarkRefsAsNeeded call has committed a ref it had found absent, and the
\* object is stored by now
C17_Witness ==
    \E p \in Procs :
        /\ op[p].kind = "MarkRefsAsNeeded"
        /\ loc[p].txn = "committed"
        /\ \E r \in Range(loc[p].actuallyNeeded) :
               /\ r \notin loc[p].held
               /\ r \in refsNeeded(missingRefs)
               /\ haveObject(r).have

\* the SHA3 digests that name a file under blobs/
BlobHashes == { HashFromHex(f) : f \in { g \in DOMAIN blobs : HexOK(g) } }

\* both mapping entries of the blob X exist
Indexed(X) ==
    /\ sha1ForSHA3(X).err = "nil"
    /\ sha3ForSHA1(sha1ForSHA3(X).hash) = [err |-> "nil", hash |-> X]

NoStoreInProgress == \A q \in Procs : ~InStoreObject(q)

\* C18 as stated: whenever no StoreObject call is in progress, every blob file
\* has both index entries, the blobs of calls that returned an error included.
C18_IndexComplete ==
    NoStoreInProgress => \A X \in BlobHashes : Indexed(X)

\* C18, amended: whenever no StoreObject call is in progress, every blob file
\* of a StoreObject call that returned without error has both index entries,
\* sha1->X and X->sha1 with the digests that call returned; a blob file without
\* them is the blob of a call that renamed its file and then returned an
\* error.
C18_IndexCompleteOnSuccess ==
    NoStoreInProgress =>
        /\ \A s \in hist.storedOK :
              /\ s.sha3 \in BlobHashes
              /\ Indexed(s.sha3)
              /\ sha1ForSHA3(s.sha3).hash = s.sha1
        /\ \A X \in BlobHashes :
              ~Indexed(X) =>
                  /\ blobs[filepathForSHA3Blob(X)] \in hist.published
                  /\ \A s \in hist.storedOK : s.sha3 # X

\* one call has stored and indexed its blob, and the blob of another call,
\* which failed at the index write, is on disk without index entries
C18_Witness ==
    /\ NoStoreInProgress
    /\ \E s \in hist.storedOK : Indexed(s.sha3)
    /\ \E X \in BlobHashes : ~Indexed(X)

\* C20 as stated: a call whose transaction changed the missing set, by adding
\* refs in MarkRefsAsNeeded or by removing them in StoreObject, has by its
\* return dispatched RefsNeeded and invoked every registered RefsNeeded
\* listener.
C20_ChangeNotified ==
    \A p \in Procs :
        pc[p] = "done" /\ loc[p].changed =>
            \A k \in 1..Len(refsNeededListeners) :
                /\ loc[p].event = "RefsNeeded"
                /\ k \in DOMAIN loc[p].delivered
                /\ loc[p].delivered[k] = 1

\* C20, amended: a MarkRefsAsNeeded call whose transaction changed the missing
\* set has by its return dispatched RefsNeeded and invoked every registered
\* RefsNeeded listener once; a StoreObject call whose unmark changed the set has dispatched
\* RefsSaved only, to every registered RefsSaved listener.
C20_AdditionNotified ==
    \A p \in Procs :
        pc[p] = "done" /\ loc[p].changed =>
            /\ op[p].kind = "MarkRefsAsNeeded" =>
                  /\ loc[p].event = "RefsNeeded"
                  /\ DOMAIN loc[p].delivered = 1..Len(refsNeededListeners)
                  /\ \A k \in DOMAIN loc[p].delivered : loc[p].delivered[k] = 1
            /\ op[p].kind = "StoreObject" =>
                  /\ loc[p].event = "RefsSaved"
                  /\ DOMAIN loc[p].delivered = 1..Len(refsSavedListeners)
                  /\ \A k \in DOMAIN loc[p].delivered : loc[p].delivered[k] = 1

\* a MarkRefsAsNeeded call added a ref and its RefsNeeded listener has run
C20_Witness ==
    \E p \in Procs :
        /\ Finished(p, "MarkRefsAsNeeded")
        /\ loc[p].changed
        /\ Len(refsNeededListeners) = 1
        /\ loc[p].delivered[1] = 1

\* C21: the list MarkRefsAsNeeded dispatches to the RefsNeeded listeners is
\* the whole missing set as stored at the moment of the reload that follows
\* the transaction, the refs marked by earlier calls included.
C21_FullContents ==
    [][\A p \in Procs :
           pc[p] = "mk_view" /\ pc'[p] = "mk_wait" =>
               loc'[p].allNeeded =
                   { UnmarshalText(k) :
                       k \in { t \in jsonUnmarshal(missingRefs.bs) : UnmarshalOK(t) } }]_vars

\* a call dispatches a list that holds the ref it added and a ref marked by
\* an earlier call
C21_Witness ==
    \E p \in Procs :
        /\ pc[p] = "mk_wait"
        /\ loc[p].txn = "committed"
        /\ Range(loc[p].actuallyNeeded) # {}
        /\ Range(loc[p].actuallyNeeded) \subseteq loc[p].allNeeded
        /\ loc[p].allNeeded \ Range(loc[p].actuallyNeeded) # {}

\* C22: HaveObject with a SHA1 ref returns (false, nil) when no sha1->sha3
\* entry exists; with a ref of either algorithm it returns no error and says
\* true exactly when the file blobs/<hex of the resolved SHA3> exists.
C22_HaveObject ==
    \A p \in Procs :
        Finished(p, "HaveObject") =>
            LET refID == op[p].refID IN
            /\ refID.HashAlg = "sha1" /\ refID.Hash \notin DOMAIN sha1Index =>
                  ret[p].err = "nil" /\ ~ret[p].have
            /\ refID.HashAlg = "sha1" /\ refID.Hash \in DOMAIN sha1Index =>
                  /\ ret[p].err = "nil"
                  /\ ret[p].have <=> Hex(sha1Index[refID.Hash]) \in DOMAIN blobs
            /\ refID.HashAlg = "sha3" =>
                  /\ ret[p].err = "nil"
                  /\ ret[p].have <=> Hex(refID.Hash) \in DOMAIN blobs

\* the sha1->sha3 entry is there, the blob file is not, and HaveObject says
\* false
C22_Witness ==
    \E p \in Procs :
        /\ Finished(p, "HaveObject")
        /\ op[p].refID = SHA1Ref(<< >>)
        /\ op[p].refID.Hash \in DOMAIN sha1Index
        /\ Hex(sha1Index[op[p].refID.Hash]) \notin DOMAIN blobs
        /\ ret[p].err = "nil"
        /\ ~ret[p].have

\* C23: Object fails with Err404, the NotFound error, and hands back no
\* stream, when its SHA1 ref has no sha1->sha3 entry and when the file
\* blobs/<hex of the resolved SHA3> is missing.
C23_ObjectNotFound ==
    \A p \in Procs :
        Finished(p, "Object") =>
            LET refID == op[p].refID
                noEntry == refID.HashAlg = "sha1" /\ refID.Hash \notin DOMAIN sha1Index
                noFile ==
                    \/ refID.HashAlg = "sha3" /\ Hex(refID.Hash) \notin DOMAIN blobs
                    \/ /\ refID.HashAlg = "sha1"
                       /\ refID.Hash \in DOMAIN sha1Index
                       /\ Hex(sha1Index[refID.Hash]) \notin DOMAIN blobs
            IN noEntry \/ noFile =>
                   /\ ret[p].err = "Err404"
                   /\ ret[p].data = << >>
                   /\ ret[p].size = 0

\* C24: AllHashes returns one SHA3 RefID for every file under blobs/ whose
\* name parses as a digest, one SHA1 RefID for each of them that has a
\* sha3->sha1 entry, and nothing else, each once: files with other names and
\* temporary files add nothing.
C24_AllHashes ==
    \A p \in Procs :
        Finished(p, "AllHashes") =>
            LET expected ==
                    { RefID("sha3", X) : X \in BlobHashes } \cup
                    { RefID("sha1", sha3Index[X]) : X \in BlobHashes \cap DOMAIN sha3Index }
            IN /\ ret[p].err = "nil"
               /\ Range(ret[p].refs) = expected
               /\ Len(ret[p].refs) = Cardinality(expected)

\* both contents have been stored, a file with a foreign name lies under
\* blobs/, and AllHashes returns four RefIDs
C24_Witness ==
    \E p \in Procs :
        /\ Finished(p, "AllHashes")
        /\ Cardinality(hist.storedOK) = 2
        /\ \E n \in DOMAIN blobs : ~HexOK(n)
        /\ Len(ret[p].refs) = 4

\* C25: no step removes a file under blobs/ or changes its content: a blob
\* that HaveObject has found stays there, and Object goes on yielding the
\* same bytes.
C25_BlobsImmutable ==
    [][\A f \in DOMAIN blobs : f \in DOMAIN blobs' /\ blobs'[f] = blobs[f]]_vars

\* a StoreObject call has renamed its file over the blob an earlier call
\* stored
C25_Witness ==
    \E p \in Procs :
        /\ pc[p] = "so_index"
        /\ loc[p].again
        /\ \E s \in hist.storedOK : s.data = op[p].reader /\ s.sha3 = loc[p].sha3Hash
        /\ blobs[Hex(loc[p].sha3Hash)] = op[p].reader

\* C26: a HaveObject, Object or ObjectFilepath call with a RefID whose tag is
\* neither SHA1 nor SHA3 returns an error, with false, no stream and the
\* empty path; the file mutex is free when it returns, and no blob, index
\* entry or missing-set entry has changed.
C26_UnknownTag ==
    [][\A p \in Procs :
           /\ pc[p] = "idle" /\ pc'[p] = "done"
           /\ op'[p].kind \in {"HaveObject", "Object", "ObjectFilepath"}
           /\ op'[p].refID.HashAlg \notin {"sha1", "sha3"}
           => /\ ret'[p].err = "unknown hash type"
              /\ ~ret'[p].have
              /\ ret'[p].data = << >> /\ ret'[p].size = 0
              /\ ret'[p].path = << >>
              /\ fileMu' = NoProc
              /\ UNCHANGED << blobs, sha1Index, sha3Index, missingRefs >>]_vars

\* HaveObject with such a RefID has returned its error, in a store that holds
\* a blob
C26_Witness ==
    \E p \in Procs :
        /\ Finished(p, "HaveObject")
        /\ op[p].refID = UnknownRef
        /\ ret[p].err = "unknown hash type"
        /\ hist.storedOK # {}

\* C27: in every state the entry sha1->X exists exactly when the entry
\* X->sha1 exists, each naming the other: no state has one direction alone.
C27_BothDirections ==
    /\ \A h \in DOMAIN sha1Index :
          sha1Index[h] \in DOMAIN sha3Index /\ sha3Index[sha1Index[h]] = h
    /\ \A X \in DOMAIN sha3Index :
          sha3Index[X] \in DOMAIN sha1Index /\ sha1Index[sha3Index[X]] = X

\* a StoreObject call has just written its two entries, after the index
\* transaction of another call had failed
C27_Witness ==
    \E p \in Procs :
        /\ pc[p] = "so_unmark"
        /\ loc[p].sha1Hash \in DOMAIN sha1Index
        /\ sha1Index[loc[p].sha1Hash] = loc[p].sha3Hash
        /\ hist.published # {}
        /\ hist.storedOK = {}

\* C28: a StoreObject call whose index write fails after its rename returns
\* the digests of its stream with an error, has run no unmark transaction and
\* dispatched no event, and leaves its blob on disk and the index and the
\* missing set as they were. A later StoreObject call with the same stream
\* that returns without error leaves what a first successful call leaves: the
\* blob, both index entries, the digests returned, and the two refs out of
\* the missing set unless its unmark transaction failed or a concurrent
\* MarkRefsAsNeeded call that had found a ref absent committed it afterwards.
C28_IndexFailureRecovered ==
    [][\A p \in Procs :
           LET sha1Hash == SHA1Sum(op[p].reader)
               sha3Hash == Keccak256Sum(op[p].reader)
           IN /\ pc[p] = "so_index" /\ pc'[p] = "done" =>
                  /\ ret'[p].err # "nil"
                  /\ ret'[p].sha1 = sha1Hash /\ ret'[p].sha3 = sha3Hash
                  /\ loc'[p].txn = "none" /\ loc'[p].event = "none"
                  /\ Invoked(p) = {}
                  /\ Hex(sha3Hash) \in DOMAIN blobs'
                  /\ blobs'[Hex(sha3Hash)] = op[p].reader
                  /\ UNCHANGED << sha1Index, sha3Index, missingRefs >>
              /\ pc[p] = "so_wait" /\ pc'[p] = "done" /\ loc[p].retry =>
                  /\ ret'[p].err = "nil"
                  /\ ret'[p].sha1 = sha1Hash /\ ret'[p].sha3 = sha3Hash
                  /\ Hex(sha3Hash) \in DOMAIN blobs'
                  /\ blobs'[Hex(sha3Hash)] = op[p].reader
                  /\ sha1Hash \in DOMAIN sha1Index' /\ sha1Index'[sha1Hash] = sha3Hash
                  /\ sha3Hash \in DOMAIN sha3Index' /\ sha3Index'[sha3Hash] = sha1Hash
                  /\ loc[p].event = "RefsSaved"
                  /\ \A r \in { RefID("sha1", sha1Hash), RefID("sha3", sha3Hash) } :
                         r \in refsNeeded(missingRefs') =>
                             \/ loc[p].txn = "failed"
                             \/ r \in hist.staleMarks]_vars

\* a StoreObject call has returned without error for a stream whose earlier
\* call had failed at the index write
C28_Witness ==
    \E p \in Procs :
        /\ Finished(p, "StoreObject")
        /\ ret[p].err = "nil"
        /\ loc[p].retry
        /\ Indexed(ret[p].sha3)

\* C29: ObjectFilepath with a SHA3 ref returns blobs/<hex of the digest>
\* whether or not that file exists; with a SHA1 ref it returns the path of
\* the mapped SHA3 digest, or Err404 and the empty path when there is no
\* sha1->sha3 entry. The call touches no file, and the file mutex is free
\* when it returns.
C29_ObjectFilepath ==
    [][\A p \in Procs :
           pc[p] = "idle" /\ pc'[p] = "done" /\ op'[p].kind = "ObjectFilepath" =>
               LET refID == op'[p].refID IN
               /\ refID.HashAlg = "sha3" =>
                     ret'[p].err = "nil" /\ ret'[p].path = Hex(refID.Hash)
               /\ refID.HashAlg = "sha1" /\ refID.Hash \in DOMAIN sha1Index =>
                     ret'[p].err = "nil" /\ ret'[p].path = Hex(sha1Index[refID.Hash])
               /\ refID.HashAlg = "sha1" /\ refID.Hash \notin DOMAIN sha1Index =>
                     ret'[p].err = "Err404" /\ ret'[p].path = << >>
               /\ fileMu' = NoProc
               /\ UNCHANGED << blobs, tmpFile, orphanTemps >>]_vars

\* the path of a blob that does not exist has been returned
C29_Witness ==
    \E p \in Procs :
        /\ Finished(p, "ObjectFilepath")
        /\ op[p].refID = SHA3Ref(<< >>)
        /\ ret[p].err = "nil"
        /\ ret[p].path = Hex(Keccak256Sum(<< >>))
        /\ ret[p].path \notin DOMAIN blobs

\* C30: a StoreObject call that has dispatched RefsSaved returns, also when
\* the listeners call HaveObject from their bodies.
C30_StoreObjectReturns ==
    \A p \in Procs : (pc[p] = "so_wait") ~> (pc[p] = "done")

\* C31: a notification returns, also when one of its callbacks registers a
\* callback on the registry being dispatched: the call that has dispatched
\* RefsSaved or RefsNeeded gets to its return.
C31_NotificationReturns ==
    \A p \in Procs : (pc[p] \in {"so_wait", "mk_wait"}) ~> (pc[p] = "done")


\* C32: an Enqueue call made while chWork is open returns at once, buffering
\* the request when chWork has room and dropping it only when chWork holds
\* QueueSize requests; every request
\* Enqueue accepted is either still buffered, or held by the worker, or has
\* had its one callback invocation; and once Stop has returned the worker has
\* exited, every accepted request has had its invocation, and the number of
\* invocations stays what it was when Stop returned.
C32_WorkQueue ==
    /\ wq.chWork <= QueueSize
    /\ wq.dropFull
    /\ wq.enqueued # wq.accepted + wq.dropped =>
           /\ wq.enqueued = wq.accepted + wq.dropped + 1
           /\ wq.closed
           /\ wq.panicked
    /\ wq.accepted = wq.invoked + wq.chWork + (IF wq.worker = "callback" THEN 1 ELSE 0)
    /\ wq.stop = "returned" =>
           /\ wq.worker = "exited"
           /\ wq.chDone
           /\ wq.chWork = 0
           /\ wq.invoked = wq.accepted
           /\ wq.invoked = wq.atReturn

\* Stop has returned after a request was accepted and another was dropped
C32_Witness ==
    /\ wq.stop = "returned"
    /\ ~wq.panicked
    /\ wq.accepted >= 1
    /\ wq.dropped >= 1
    /\ wq.invoked = wq.accepted

=============================================================================
